---- MODULE Spec2Model ----
(***************************************************************************)
(* Login handshake (password and federated paths) and the user core of     *)
(* listmonk, as a state machine.                                           *)
(*                                                                         *)
(* Spec:     one action per HTTP handler; each action performs the whole   *)
(*           handler, every collaborator call included.                    *)
(* CoreSpec: the operations of the user core called one after the other on *)
(*           a store whose roles change in between.                        *)
(* ConcSpec: two clients' login handlers taking their steps interleaved.   *)
(*                                                                         *)
(* Strings that the code inspects (usernames, passwords, nonces, URIs,     *)
(* e-mails) are sequences of one-character strings, so that trimming,      *)
(* length checks, lower-casing and comparison are computed as the code     *)
(* computes them.  TLA+ strings are used only for tags and message keys.   *)
(***************************************************************************)
EXTENDS Integers, Sequences, FiniteSets, TLC

VARIABLES
    cookie,      \* the client's "nonce" cookie: [present, value]
    session,     \* the client's session held by the Session Manager
    users,       \* the Credential Store's user rows
    req,         \* the request handled last
    calls,       \* collaborator calls made while handling it, in order
    resp,        \* the response written for it
    loginErr,    \* the error the login attempt ended with (NoErr: none)
    latencyNs,   \* password path: time from the start of the store call to
                 \* the return of doLogin, in nanoseconds
    issued,      \* history: the nonces of the last two renders, latest first
    usedNonces,  \* history: cookie nonces of processed submissions/callbacks
    roles,       \* the Credential Store's role rows
    lastID,      \* the id the store gave to the user created last
    core,        \* the core operation performed last, and what it returned
    procs        \* concurrent login attempts: per client, where its handler
                 \* is and what it holds

vars == <<cookie, session, users, req, calls, resp, loginErr, latencyNs, issued,
          usedNonces, roles, lastID, core, procs>>

----------------------------------------------------------------------------
(* Bounds of the model *)

\* Shared maximum input length N of the form fields (scaled down).
stdInputMaxLen == 9

\* Length of the nonce made by renderLoginPage (the source asks for 16).
NonceLen == 1

\* Length of the token made for an API user (the source asks for 32).
TokenLen == 1

\* The store holds users with ids up to this.
MaxUserID == 3

----------------------------------------------------------------------------
(* Strings *)

Sp == " "

Rep(ch, n) == [i \in 1..n |-> ch]

\* l spaces, n letters, t spaces
Pad(l, n, t) == Rep(Sp, l) \o Rep("a", n) \o Rep(Sp, t)

RECURSIVE TrimLeft(_)
TrimLeft(s) == IF s # <<>> /\ Head(s) = Sp THEN TrimLeft(Tail(s)) ELSE s

RECURSIVE TrimRight(_)
TrimRight(s) ==
    IF s # <<>> /\ s[Len(s)] = Sp THEN TrimRight(SubSeq(s, 1, Len(s) - 1)) ELSE s

\* strings.TrimSpace
TrimSpace(s) == TrimRight(TrimLeft(s))

\* strings.ToLower on the letters the model uses
LowerChar(ch) == CASE ch = "A" -> "a" [] ch = "B" -> "b" [] ch = "C" -> "c"
                   [] OTHER -> ch

ToLower(s) == [i \in 1..Len(s) |-> LowerChar(s[i])]

strHasLen(str, min, max) == Len(str) >= min /\ Len(str) <= max

----------------------------------------------------------------------------
(* Errors and HTTP statuses *)

StatusOK == 200
StatusFound == 302
StatusBadRequest == 400
StatusUnauthorized == 401
StatusForbidden == 403
StatusInternalServerError == 500

NoErr == [kind |-> "nil", code |-> 0, msg |-> ""]

\* echo.NewHTTPError(code, msg)
HTTPError(code, msg) == [kind |-> "http", code |-> code, msg |-> msg]

\* errors.New(msg), and the errors of the collaborators outside the core
PlainError(msg) == [kind |-> "error", code |-> 0, msg |-> msg]

----------------------------------------------------------------------------
(* URIs *)

Root == <<"/">>

\* The application's default landing path.
uriAdmin == <<"/", "a", "d", "m", "i", "n">>

\* A scheme: a ":" with no "/" before it.
HasScheme(u) ==
    \E i \in 1..Len(u) : u[i] = ":" /\ \A j \in 1..(i - 1) : u[j] # "/"

AfterScheme(u) ==
    IF HasScheme(u)
    THEN LET i == CHOOSE k \in 1..Len(u) :
                     u[k] = ":" /\ \A j \in 1..(k - 1) : u[j] # ":"
         IN SubSeq(u, i + 1, Len(u))
    ELSE u

\* A host: the part after the scheme starts with "//".
HasHost(u) ==
    LET r == AfterScheme(u) IN Len(r) >= 2 /\ r[1] = "/" /\ r[2] = "/"

\* utils.SanitizeURI: a value that is not a safe same-origin relative path
\* becomes the root path; a relative path is passed through.
SanitizeURI(u) ==
    LET t == TrimSpace(u)
    IN IF t = <<>> \/ HasScheme(t) \/ HasHost(t) THEN Root ELSE t

----------------------------------------------------------------------------
(* Random strings *)

dictionary ==
    << "0","1","2","3","4","5","6","7","8","9",
       "A","B","C","D","E","F","G","H","I","J","K","L","M",
       "N","O","P","Q","R","S","T","U","V","W","X","Y","Z",
       "a","b","c","d","e","f","g","h","i","j","k","l","m",
       "n","o","p","q","r","s","t","u","v","w","x","y","z" >>

\* Sample outputs of crypto/rand for one byte: 62 wraps round to index 0.
RandBytes == {0, 61, 62}

\* What rand.Read can do for n bytes: fail, or fill them.
RandReads(n) ==
    {[ok |-> FALSE, bytes |-> Rep(0, n)]}
        \cup {[ok |-> TRUE, bytes |-> b] : b \in [1..n -> RandBytes]}

\* utils.GenerateRandomString(n) on the bytes rand.Read produced
GenerateRandomString(n, rnd) ==
    IF ~rnd.ok
    THEN [s |-> <<>>, err |-> PlainError("rand.Read")]
    ELSE [s   |-> [k \in 1..n |->
                      dictionary[(rnd.bytes[k] % Len(dictionary)) + 1]],
          err |-> NoErr]

\* Every nonce the login page can issue.
Nonces == {GenerateRandomString(NonceLen, r).s : r \in {x \in RandReads(NonceLen) : x.ok}}

----------------------------------------------------------------------------
(* Responses *)

NoPage == [Title |-> "", NextURI |-> <<>>, Nonce |-> <<>>,
           PasswordEnabled |-> FALSE, OIDCProvider |-> <<>>,
           OIDCProviderLogo |-> <<>>, Error |-> ""]

NoLocation == [provider |-> FALSE, path |-> <<>>, state |-> <<>>, nonce |-> <<>>]

\* kind: what was written; err: the error a bare error response carries.
NoResp == [kind |-> "none", status |-> 0, err |-> NoErr,
           page |-> NoPage, location |-> NoLocation, data |-> FALSE]

\* c.Render(status, "admin-login", out)
Render(status, out) ==
    [NoResp EXCEPT !.kind = "render", !.status = status, !.page = out]

\* c.Redirect(status, url) to a path of the application
Redirect(status, path) ==
    [NoResp EXCEPT !.kind = "redirect", !.status = status,
                   !.location = [NoLocation EXCEPT !.path = path]]

\* c.Redirect(status, url) to the identity provider
RedirectTo(status, url) ==
    [NoResp EXCEPT !.kind = "redirect", !.status = status, !.location = url]

\* A handler that returns an error: echo answers with the bare HTTP error.
ErrorResponse(e) == [NoResp EXCEPT !.kind = "error", !.status = e.code, !.err = e]

\* c.JSON(status, okResp{data})
JSON(status, data) == [NoResp EXCEPT !.kind = "json", !.status = status, !.data = data]

----------------------------------------------------------------------------
(* Login page *)

\* app.constants.Security.OIDC: read-only after startup.  The provider URL
\* is kept as the labels of its host name.
OIDCConfig == [Enabled |-> TRUE, ProviderHost |-> <<"accounts", "google", "com">>]

oidcProviders == { <<"google", "com">>, <<"microsoftonline", "com">>,
                   <<"auth0", "com">>, <<"github", "com">> }

\* The root domain of the provider: its last two labels.
RootDomain(h) == IF Len(h) >= 2 THEN <<h[Len(h) - 1], h[Len(h)]>> ELSE h

ProviderBadge ==
    IF OIDCConfig.Enabled
    THEN LET p == RootDomain(OIDCConfig.ProviderHost)
         IN [provider |-> p,
             logo     |-> IF p \in oidcProviders THEN p \o <<"png">>
                                                 ELSE <<"oidc", "png">>]
    ELSE [provider |-> <<>>, logo |-> <<>>]

\* renderLoginPage setting the nonce cookie only when the client has none.
renderLoginPage_KeepsCookie(c, err) ==
    { LET s    == SanitizeURI(c.form.next)
          next == IF s = Root THEN uriAdmin ELSE s
          gen  == GenerateRandomString(NonceLen, rnd)
          out  == [Title            |-> "users.login",
                   PasswordEnabled  |-> TRUE,
                   OIDCProvider     |-> ProviderBadge.provider,
                   OIDCProviderLogo |-> ProviderBadge.logo,
                   NextURI          |-> next,
                   Error            |-> err.msg,
                   Nonce            |-> gen.s]
      IN IF gen.err # NoErr
         THEN [resp   |-> ErrorResponse(HTTPError(StatusBadRequest,
                                                  "globals.messages.internalError")),
               cookie |-> c.cookie]
         ELSE [resp   |-> Render(StatusOK, out),
               cookie |-> IF c.cookie.present THEN c.cookie
                          ELSE [present |-> TRUE, value |-> gen.s]]
      : rnd \in RandReads(NonceLen) }

\* renderLoginPage(c, err): every outcome it can have (one per answer
\* of rand.Read): the response, and the client's nonce cookie after it.
renderLoginPage(c, err) ==
    { LET s    == SanitizeURI(c.form.next)
          next == IF s = Root THEN uriAdmin ELSE s
          gen  == GenerateRandomString(NonceLen, rnd)
          out  == [Title            |-> "users.login",
                   PasswordEnabled  |-> TRUE,
                   OIDCProvider     |-> ProviderBadge.provider,
                   OIDCProviderLogo |-> ProviderBadge.logo,
                   NextURI          |-> next,
                   Error            |-> err.msg,
                   Nonce            |-> gen.s]
      IN IF gen.err # NoErr
         THEN [resp   |-> ErrorResponse(HTTPError(StatusBadRequest,
                                                  "globals.messages.internalError")),
               cookie |-> c.cookie]
         ELSE [resp   |-> Render(StatusOK, out),
               cookie |-> [present |-> TRUE, value |-> gen.s]]
      : rnd \in RandReads(NonceLen) }

----------------------------------------------------------------------------
(* Credential Store *)

UserIDs == 1..MaxUserID

UserTypeUser == "user"
UserTypeAPI == "api"

\* Permission strings.
PermUsersManage == "users:manage"
PermListsGet == "lists:get"
PermListView == "list:view"
PermListManage == "list:manage"

\* The raw per-resource permission payload of a role, as the store hands it
\* out: SQL NULL, or a JSON text.  A JSON text is kept as what there is to
\* parse: whether it is well-formed JSON at all and, if so, the objects of
\* its array, each value with the JSON type it has.
RawNull == [null |-> TRUE, wellFormed |-> TRUE, items |-> <<>>]

RawJSON(items) == [null |-> FALSE, wellFormed |-> TRUE, items |-> items]

\* A text that is not JSON (a syntax error).
RawMalformed == [null |-> FALSE, wellFormed |-> FALSE, items |-> <<>>]

\* {"id": id, "permissions": [perms...]}
Grant(id, perms) ==
    [id |-> [number |-> TRUE, n |-> id], permissions |-> [array |-> TRUE, elems |-> perms]]

\* {"id": "x", "permissions": [perms...]}: the id is a JSON string
GrantStringID(perms) ==
    [id |-> [number |-> FALSE, n |-> 0], permissions |-> [array |-> TRUE, elems |-> perms]]

\* The payloads a role can hold: the grant of the spec's example, two
\* grants for two resources, two grants naming the same resource, a grant
\* whose id has the wrong JSON type after a good one, a text that is not
\* JSON, and NULL.
RolePayloads ==
    { RawJSON(<<Grant(5, <<PermListView>>)>>),
      RawJSON(<<Grant(5, <<PermListView>>), Grant(6, <<PermListManage, PermListView>>)>>),
      RawJSON(<<Grant(5, <<PermListView>>), Grant(5, <<PermListManage>>)>>),
      RawJSON(<<Grant(5, <<PermListView>>), GrantStringID(<<PermListManage>>)>>),
      RawMalformed,
      RawNull }

\* The flat permission lists a role can hold.
RolePermLists == { <<PermUsersManage>>, <<PermListsGet, PermUsersManage>> }

RoleIDs == {1, 2}

\* The roles the store holds at start: role 1 is the role of the spec's
\* example, role 2 grants nothing.
InitRoles ==
    [r \in RoleIDs |->
        IF r = 1
        THEN [name |-> "manager", permissions |-> <<PermUsersManage>>,
              lists |-> RawJSON(<<Grant(5, <<PermListView>>)>>)]
        ELSE [name |-> "none", permissions |-> <<>>, lists |-> RawNull]]

\* The rows the store holds at start: two interactive users with passwords.
InitUsers ==
    [id \in {1, 2} |->
        IF id = 1
        THEN [id |-> 1, username |-> Rep("a", 3), password |-> Rep("a", 8),
              email |-> <<"a">>, type |-> UserTypeUser, avatar |-> <<>>,
              name |-> "n", status |-> "enabled", passwordLogin |-> TRUE,
              roleID |-> 1]
        ELSE [id |-> 2, username |-> Rep("a", stdInputMaxLen),
              password |-> Rep("a", stdInputMaxLen),
              email |-> <<"b">>, type |-> UserTypeUser, avatar |-> <<>>,
              name |-> "n", status |-> "enabled", passwordLogin |-> TRUE,
              roleID |-> 2]]

\* A nil map, and the maps made by make(): PermissionsMap is a set of
\* permission strings, ListPermissionsMap a function from resource ids to
\* sets of permission strings.
NilSet == [made |-> FALSE, keys |-> {}]
MadeSet(S) == [made |-> TRUE, keys |-> S]
NilMap == [made |-> FALSE, m |-> <<>>]
MadeMap(f) == [made |-> TRUE, m |-> f]

NoRole == [ID |-> 0, Name |-> "", Permissions |-> <<>>, Lists |-> <<>>]

\* models.User{}: the zero value of the user struct.
NoUser == [id |-> 0, username |-> <<>>, password |-> <<>>, email |-> <<>>,
           type |-> "", avatar |-> <<>>, name |-> "", status |-> "",
           passwordLogin |-> FALSE, roleID |-> 0,
           RoleName |-> "", RolePerms |-> <<>>, ListsPermsRaw |-> RawNull,
           HasPassword |-> FALSE, Role |-> NoRole,
           PermissionsMap |-> NilSet, ListPermissionsMap |-> NilMap]

RECURSIVE SortedIDs(_)
SortedIDs(S) ==
    IF S = {} THEN <<>>
    ELSE LET m == CHOOSE x \in S : \A y \in S : x <= y
         IN <<m>> \o SortedIDs(S \ {m})

\* A stored row joined with its role, scanned into a user struct: the
\* computed fields keep their zero values.
Scan(u, rls) ==
    LET known == u.roleID \in DOMAIN rls
    IN [NoUser EXCEPT
          !.id = u.id, !.username = u.username, !.password = u.password,
          !.email = u.email, !.type = u.type, !.avatar = u.avatar,
          !.name = u.name, !.status = u.status,
          !.passwordLogin = u.passwordLogin, !.roleID = u.roleID,
          !.RoleName = IF known THEN rls[u.roleID].name ELSE "",
          !.RolePerms = IF known THEN rls[u.roleID].permissions ELSE <<>>,
          !.ListsPermsRaw = IF known THEN rls[u.roleID].lists ELSE RawNull]

\* The store's "get users" query: by id, else by username, else by e-mail,
\* else every user; rows in id order, each joined with its role.
QueryGetUsers(rows, rls, id, username, email) ==
    LET hit(u) == IF id # 0 THEN u.id = id
                  ELSE IF username # <<>> THEN u.username = username
                  ELSE IF email # <<>> THEN u.email = email
                  ELSE TRUE
        ids == SortedIDs({i \in DOMAIN rows : hit(rows[i])})
    IN [k \in 1..Len(ids) |-> Scan(rows[ids[k]], rls)]

\* The store's "login user" query: the row matching username and password.
QueryLoginUser(rows, rls, username, password) ==
    LET ids == SortedIDs({i \in DOMAIN rows :
                   /\ rows[i].username = username
                   /\ rows[i].password # <<>>
                   /\ rows[i].password = password})
    IN [k \in 1..Len(ids) |-> Scan(rows[ids[k]], rls)]

\* The store's "update user login" statement.
ExecUpdateUserLogin(rows, id, avatar) ==
    [i \in DOMAIN rows |->
        IF i = id THEN [rows[i] EXCEPT !.avatar = avatar] ELSE rows[i]]

\* The store's "create user" statement: the row gets the next id.
ExecCreateUser(rows, last, u) ==
    LET id == last + 1
    IN [id   |-> id,
        rows |-> [i \in DOMAIN rows \cup {id} |->
                     IF i = id
                     THEN [id |-> id, username |-> u.username,
                           password |-> u.password, email |-> u.email,
                           type |-> u.type, avatar |-> <<>>, name |-> u.name,
                           status |-> u.status,
                           passwordLogin |-> u.passwordLogin,
                           roleID |-> u.roleID]
                     ELSE rows[i]]]

\* The store's "update user" statement: the rows afterwards and how many
\* rows it affected.
ExecUpdateUser(rows, id, u) ==
    [n    |-> IF id \in DOMAIN rows THEN 1 ELSE 0,
     rows |-> [i \in DOMAIN rows |->
                 IF i = id
                 THEN [rows[i] EXCEPT
                         !.username = u.username,
                         !.passwordLogin = u.passwordLogin,
                         !.password = u.password, !.email = u.email,
                         !.name = u.name, !.type = u.type,
                         !.roleID = u.roleID, !.status = u.status]
                 ELSE rows[i]]]

\* The store's "update user profile" statement.
ExecUpdateUserProfile(rows, id, u) ==
    [n    |-> IF id \in DOMAIN rows THEN 1 ELSE 0,
     rows |-> [i \in DOMAIN rows |->
                 IF i = id
                 THEN [rows[i] EXCEPT
                         !.name = u.name, !.email = u.email,
                         !.passwordLogin = u.passwordLogin,
                         !.password = u.password]
                 ELSE rows[i]]]

\* The store's "delete users" statement.
ExecDeleteUsers(rows, ids) ==
    [n    |-> Cardinality(DOMAIN rows \cap ids),
     rows |-> [i \in DOMAIN rows \ ids |-> rows[i]]]

----------------------------------------------------------------------------
(* Core: users *)

\* json.Unmarshal(raw, &listPerms) into a nil []models.ListPermission.  A
\* text that is not JSON is refused before anything is decoded.  A value of
\* the wrong JSON type is skipped, its field keeps the zero value, decoding
\* goes on, and the error is returned at the end.
Unmarshal(raw) ==
    IF ~raw.wellFormed
    THEN [v |-> <<>>, err |-> TRUE]
    ELSE [v   |-> [i \in 1..Len(raw.items) |->
                     [ID          |-> IF raw.items[i].id.number
                                      THEN raw.items[i].id.n ELSE 0,
                      Permissions |-> IF raw.items[i].permissions.array
                                      THEN raw.items[i].permissions.elems
                                      ELSE <<>>]],
          err |-> \E i \in 1..Len(raw.items) :
                     ~raw.items[i].id.number \/ ~raw.items[i].permissions.array]

\* The set made by the loop over u.RolePerms.
PermissionSet(perms) == {perms[i] : i \in 1..Len(perms)}

\* The map made by the loop over listPerms: every grant makes the map of
\* its resource anew, so of the grants naming one resource the last is kept.
RECURSIVE ListPermissionMap(_)
ListPermissionMap(listPerms) ==
    IF listPerms = <<>> THEN <<>>
    ELSE LET n    == Len(listPerms)
             p    == listPerms[n]
             rest == ListPermissionMap(SubSeq(listPerms, 1, n - 1))
         IN [k \in DOMAIN rest \cup {p.ID} |->
               IF k = p.ID THEN PermissionSet(p.Permissions) ELSE rest[k]]

\* The body of the loop of Core.getUsers leaving the e-mail as stored.
Expand_KeepsEmail(u) ==
    LET listPerms == IF ~u.ListsPermsRaw.null THEN Unmarshal(u.ListsPermsRaw).v
                     ELSE <<>>
    IN [u EXCEPT
          !.HasPassword = (u.password # <<>>),
          !.passwordLogin = IF u.password # <<>> THEN TRUE ELSE u.passwordLogin,
          !.Role = [ID |-> u.roleID, Name |-> u.RoleName,
                    Permissions |-> u.RolePerms, Lists |-> listPerms],
          !.roleID = 0,
          !.PermissionsMap = MadeSet(PermissionSet(u.RolePerms)),
          !.ListPermissionsMap = MadeMap(ListPermissionMap(listPerms))]

\* The body of the loop of Core.getUsers: one fetched row expanded.
Expand(u) ==
    LET listPerms == IF ~u.ListsPermsRaw.null THEN Unmarshal(u.ListsPermsRaw).v
                     ELSE <<>>
    IN [u EXCEPT
          !.HasPassword = (u.password # <<>>),
          !.passwordLogin = IF u.password # <<>> THEN TRUE ELSE u.passwordLogin,
          !.email = IF u.type = UserTypeAPI THEN <<>> ELSE u.email,
          !.Role = [ID |-> u.roleID, Name |-> u.RoleName,
                    Permissions |-> u.RolePerms, Lists |-> listPerms],
          !.roleID = 0,
          !.PermissionsMap = MadeSet(PermissionSet(u.RolePerms)),
          !.ListPermissionsMap = MadeMap(ListPermissionMap(listPerms))]

\* Core.getUsers joining the users with the roles the store held at start.
getUsers_StaleRoles(rows, rls, id, username, email, dbOK) ==
    LET out == QueryGetUsers(rows, InitRoles, id, username, email)
    IN IF ~dbOK
       THEN [out |-> <<>>,
             err |-> HTTPError(StatusInternalServerError,
                               "globals.messages.errorFetching")]
       ELSE IF Len(out) = 0
       THEN [out |-> <<>>, err |-> PlainError("user not found")]
       ELSE [out |-> [n \in 1..Len(out) |-> Expand(out[n])], err |-> NoErr]

\* Core.getUsers: the users, or the error.
getUsers(rows, rls, id, username, email, dbOK) ==
    LET out == QueryGetUsers(rows, rls, id, username, email)
    IN IF ~dbOK
       THEN [out |-> <<>>,
             err |-> HTTPError(StatusInternalServerError,
                               "globals.messages.errorFetching")]
       ELSE IF Len(out) = 0
       THEN [out |-> <<>>, err |-> PlainError("user not found")]
       ELSE [out |-> [n \in 1..Len(out) |-> Expand(out[n])], err |-> NoErr]

\* Core.GetUsers
GetUsers(rows, rls, dbOK) == getUsers(rows, rls, 0, <<>>, <<>>, dbOK)

\* Core.GetUser
GetUser(rows, rls, id, username, email, dbOK) ==
    LET r == getUsers(rows, rls, id, username, ToLower(email), dbOK)
    IN IF r.err # NoErr
       THEN [user |-> NoUser,
             err  |-> HTTPError(StatusInternalServerError,
                                "globals.messages.errorFetching")]
       ELSE [user |-> r.out[1], err |-> NoErr]

\* "@api"
APISuffix == <<"@", "a", "p", "i">>

\* Core.CreateUser: the user returned, the error, and the store afterwards.
\* rnd is what rand.Read gives for the token, dbOK whether the insert
\* works, getOK whether the query of the fetch after it works.
CreateUser(rows, rls, last, u, rnd, dbOK, getOK) ==
    LET api == u.type = UserTypeAPI
        tk  == GenerateRandomString(TokenLen, rnd)
        v   == IF api
               THEN [u EXCEPT !.email = u.username \o APISuffix,
                              !.passwordLogin = FALSE,
                              !.password = tk.s]
               ELSE u
        ins == ExecCreateUser(rows, last, v)
        get == GetUser(ins.rows, rls, ins.id, <<>>, <<>>, getOK)
    IN IF api /\ tk.err # NoErr
       THEN [user |-> NoUser, err |-> tk.err, rows |-> rows, last |-> last]
       ELSE IF ~dbOK
       THEN [user |-> NoUser,
             err  |-> HTTPError(StatusInternalServerError,
                                "globals.messages.errorCreating"),
             rows |-> rows, last |-> last]
       ELSE [user |-> get.user, err |-> get.err, rows |-> ins.rows,
             last |-> ins.id]

\* Core.UpdateUser
UpdateUser(rows, rls, id, u, dbOK, getOK) ==
    LET res == ExecUpdateUser(rows, id, u)
        get == GetUser(res.rows, rls, id, <<>>, <<>>, getOK)
    IN IF ~dbOK
       THEN [user |-> NoUser,
             err  |-> HTTPError(StatusInternalServerError,
                                "globals.messages.errorUpdating"),
             rows |-> rows]
       ELSE IF res.n = 0
       THEN [user |-> NoUser,
             err  |-> HTTPError(StatusBadRequest, "users.needSuper"),
             rows |-> res.rows]
       ELSE [user |-> get.user, err |-> get.err, rows |-> res.rows]

\* Core.UpdateUserProfile
UpdateUserProfile(rows, rls, id, u, dbOK, getOK) ==
    LET res == ExecUpdateUserProfile(rows, id, u)
        get == GetUser(res.rows, rls, id, <<>>, <<>>, getOK)
    IN IF ~dbOK
       THEN [user |-> NoUser,
             err  |-> HTTPError(StatusInternalServerError,
                                "globals.messages.errorUpdating"),
             rows |-> rows]
       ELSE IF res.n = 0
       THEN [user |-> NoUser,
             err  |-> HTTPError(StatusBadRequest, "globals.messages.notFound"),
             rows |-> res.rows]
       ELSE [user |-> get.user, err |-> get.err, rows |-> res.rows]

\* Core.UpdateUserLogin: the rows afterwards, and the error.
UpdateUserLogin(rows, id, avatar, dbOK) ==
    IF ~dbOK
    THEN [rows |-> rows,
          err  |-> HTTPError(StatusInternalServerError,
                             "globals.messages.errorUpdating")]
    ELSE [rows |-> ExecUpdateUserLogin(rows, id, avatar), err |-> NoErr]

\* Core.DeleteUsers
DeleteUsers(rows, ids, dbOK) ==
    LET res == ExecDeleteUsers(rows, ids)
    IN IF ~dbOK
       THEN [rows |-> rows,
             err  |-> HTTPError(StatusInternalServerError,
                                "globals.messages.errorDeleting")]
       ELSE IF res.n = 0
       THEN [rows |-> res.rows,
             err  |-> HTTPError(StatusBadRequest, "users.needSuper")]
       ELSE [rows |-> res.rows, err |-> NoErr]

\* Core.LoginUser answering an unknown username with an error of its own.
LoginUser_TellsUnknownUser(rows, rls, username, password, dbOK) ==
    LET out == QueryLoginUser(rows, rls, username, password)
    IN IF ~dbOK
       THEN [user |-> NoUser,
             err  |-> HTTPError(StatusInternalServerError,
                                "globals.messages.errorFetching")]
       ELSE IF Len(out) = 0
       THEN [user |-> NoUser,
             err  |-> IF \E i \in DOMAIN rows : rows[i].username = username
                      THEN HTTPError(StatusForbidden, "users.invalidLogin")
                      ELSE HTTPError(StatusForbidden, "users.notFound")]
       ELSE [user |-> out[1], err |-> NoErr]

\* Core.LoginUser: the row as scanned, or the error.
LoginUser(rows, rls, username, password, dbOK) ==
    LET out == QueryLoginUser(rows, rls, username, password)
    IN IF ~dbOK
       THEN [user |-> NoUser,
             err  |-> HTTPError(StatusInternalServerError,
                                "globals.messages.errorFetching")]
       ELSE IF Len(out) = 0
       THEN [user |-> NoUser,
             err  |-> HTTPError(StatusForbidden, "users.invalidLogin")]
       ELSE [user |-> out[1], err |-> NoErr]

----------------------------------------------------------------------------
(* Session Manager and Federated Identity Client *)

NoSession == [exists |-> FALSE, user |-> 0, oidcToken |-> <<>>]

\* auth.SetSession(user, oidcToken, c): the session afterwards, and the error.
SetSession(sess, user, oidcToken, ok) ==
    IF ok
    THEN [session |-> [exists |-> TRUE, user |-> user.id, oidcToken |-> oidcToken],
          err     |-> NoErr]
    ELSE [session |-> sess, err |-> PlainError("session")]

\* sess.Destroy()
Destroy(sess, ok) == IF ok THEN NoSession ELSE sess

\* auth.GetOIDCAuthURL(next, nonce): the provider's authorization URL, with
\* the next URI as state and the nonce as correlation value.
GetOIDCAuthURL(next, nonce) ==
    [provider |-> TRUE, path |-> <<>>, state |-> next, nonce |-> nonce]

\* auth.ExchangeOIDCToken(code, nonce): what the provider answered.
ExchangeOIDCToken(code, nonce, answer) ==
    IF answer.ok
    THEN [token |-> answer.token,
          claims |-> [Email |-> answer.email, Picture |-> answer.picture],
          err |-> NoErr]
    ELSE [token |-> <<>>, claims |-> [Email |-> <<>>, Picture |-> <<>>],
          err |-> PlainError("oidc")]

\* One collaborator call, as recorded in calls.
Call(fn, arg, err) == [fn |-> fn, arg |-> arg, ok |-> (err = NoErr)]

----------------------------------------------------------------------------
(* Handlers.  A handler is the set of outcomes it can have on a request: one *)
(* per combination of answers of the collaborators it actually calls.        *)

NsPerMs == 1000000

\* The floor of the response time of doLogin, in milliseconds.
MinResponseMs == 100

\* How long the store takes to answer: under the floor, and at it.
Durations == { 50 * NsPerMs, MinResponseMs * NsPerMs }

\* What the identity provider can answer to an exchange: an error, or a
\* token with claims: the e-mail of user 1 in capitals, an unknown e-mail,
\* or no e-mail.
Answers ==
    {[ok |-> FALSE, token |-> <<>>, email |-> <<>>, picture |-> <<>>]}
        \cup {[ok |-> TRUE, token |-> <<"t">>, email |-> e, picture |-> <<"p">>] :
                e \in { <<"A">>, <<"c">>, <<>> }}

\* time.Sleep(d): d nanoseconds, nothing when d <= 0
Sleep(d) == IF d > 0 THEN d ELSE 0

\* doLoginVerify with the error of LoginUser not returned: the session is
\* set for whatever user value came back.
doLoginVerify_IgnoresLoginError(c, rows, username, password) ==
    UNION {
      LET login == LoginUser(rows, roles, username, password, dbOK)
          callL == Call("LoginUser", <<username, password>>, login.err)
          ms    == durNs \div NsPerMs
          slept == IF ms < MinResponseMs THEN Sleep(ms) ELSE 0
      IN { LET set   == SetSession(c.session, login.user, <<>>, sessOK)
               callS == Call("SetSession", <<login.user.id, <<>>, login.user>>, set.err)
           IN [err |-> set.err, calls |-> <<callL, callS>>,
               session |-> set.session, latencyNs |-> durNs + slept]
           : sessOK \in BOOLEAN }
      : dbOK \in BOOLEAN, durNs \in Durations }

\* doLogin, from `start` on: verify and fetch, pad the response time, set
\* the session.
doLoginVerify(c, rows, username, password) ==
    UNION {
      LET login == LoginUser(rows, roles, username, password, dbOK)
          callL == Call("LoginUser", <<username, password>>, login.err)
          ms    == durNs \div NsPerMs
          slept == IF ms < MinResponseMs THEN Sleep(ms) ELSE 0
      IN IF login.err # NoErr
         THEN {[err |-> login.err, calls |-> <<callL>>, session |-> c.session,
                latencyNs |-> durNs]}
         ELSE { LET set   == SetSession(c.session, login.user, <<>>, sessOK)
                    callS == Call("SetSession", <<login.user.id, <<>>, login.user>>, set.err)
                IN [err |-> set.err, calls |-> <<callL, callS>>,
                    session |-> set.session, latencyNs |-> durNs + slept]
                : sessOK \in BOOLEAN }
      : dbOK \in BOOLEAN, durNs \in Durations }

\* doLogin checking the lengths of the untrimmed form values.
doLogin_ChecksUntrimmed(c, rows) ==
    LET username == TrimSpace(c.form.username)
        password == TrimSpace(c.form.password)
    IN IF ~strHasLen(c.form.username, 3, stdInputMaxLen)
       THEN {[err |-> HTTPError(StatusBadRequest, "globals.messages.invalidFields:username"),
              calls |-> <<>>, session |-> c.session, latencyNs |-> 0]}
       ELSE IF ~strHasLen(c.form.password, 8, stdInputMaxLen)
       THEN {[err |-> HTTPError(StatusBadRequest, "globals.messages.invalidFields:password"),
              calls |-> <<>>, session |-> c.session, latencyNs |-> 0]}
       ELSE doLoginVerify(c, rows, username, password)

\* doLogin(c): the error returned, the collaborator calls made, the session
\* afterwards and the time from `start` to the return.  (The nonce check at
\* its head is commented out in the source.)
doLogin(c, rows) ==
    LET username == TrimSpace(c.form.username)
        password == TrimSpace(c.form.password)
    IN IF ~strHasLen(username, 3, stdInputMaxLen)
       THEN {[err |-> HTTPError(StatusBadRequest, "globals.messages.invalidFields:username"),
              calls |-> <<>>, session |-> c.session, latencyNs |-> 0]}
       ELSE IF ~strHasLen(password, 8, stdInputMaxLen)
       THEN {[err |-> HTTPError(StatusBadRequest, "globals.messages.invalidFields:password"),
              calls |-> <<>>, session |-> c.session, latencyNs |-> 0]}
       ELSE doLoginVerify(c, rows, username, password)

\* The error returned to echo instead of the login page.
loginFailed_ReturnsError(c, e, cs, rs, sess, latency) ==
    {[resp |-> ErrorResponse(e), cookie |-> c.cookie, session |-> sess,
      rows |-> rs, calls |-> cs, latencyNs |-> latency, loginErr |-> e]}

\* return renderLoginPage(c, e) after the calls cs, the store holding rs
loginFailed(c, e, cs, rs, sess, latency) ==
    {[resp |-> page.resp, cookie |-> page.cookie, session |-> sess,
      rows |-> rs, calls |-> cs, latencyNs |-> latency, loginErr |-> e]
     : page \in renderLoginPage(c, e)}

\* handleLoginPage expiring the nonce cookie after a successful login.
handleLoginPage_ExpiresNonce(c, rows) ==
    LET logins == IF c.method = "POST" THEN doLogin(c, rows)
                  ELSE {[err |-> NoErr, calls |-> <<>>, session |-> c.session,
                         latencyNs |-> 0]}
    IN UNION {
         IF c.method = "POST" /\ login.err = NoErr
         THEN {[resp |-> Redirect(StatusFound, SanitizeURI(c.form.next)),
                cookie |-> [present |-> FALSE, value |-> <<>>],
                session |-> login.session, rows |-> rows,
                calls |-> login.calls, latencyNs |-> login.latencyNs,
                loginErr |-> NoErr]}
         ELSE loginFailed(c, login.err, login.calls, rows, login.session,
                          login.latencyNs)
         : login \in logins }

\* handleLoginPage substituting the default landing path for the root path
\* in the redirect after a successful login.
handleLoginPage_SubstitutesLanding(c, rows) ==
    LET logins == IF c.method = "POST" THEN doLogin(c, rows)
                  ELSE {[err |-> NoErr, calls |-> <<>>, session |-> c.session,
                         latencyNs |-> 0]}
        s      == SanitizeURI(c.form.next)
        next   == IF s = Root THEN uriAdmin ELSE s
    IN UNION {
         IF c.method = "POST" /\ login.err = NoErr
         THEN {[resp |-> Redirect(StatusFound, next),
                cookie |-> c.cookie, session |-> login.session, rows |-> rows,
                calls |-> login.calls, latencyNs |-> login.latencyNs,
                loginErr |-> NoErr]}
         ELSE loginFailed(c, login.err, login.calls, rows, login.session,
                          login.latencyNs)
         : login \in logins }

\* handleLoginPage(c)
handleLoginPage(c, rows) ==
    LET logins == IF c.method = "POST" THEN doLogin(c, rows)
                  ELSE {[err |-> NoErr, calls |-> <<>>, session |-> c.session,
                         latencyNs |-> 0]}
    IN UNION {
         IF c.method = "POST" /\ login.err = NoErr
         THEN {[resp |-> Redirect(StatusFound, SanitizeURI(c.form.next)),
                cookie |-> c.cookie, session |-> login.session, rows |-> rows,
                calls |-> login.calls, latencyNs |-> login.latencyNs,
                loginErr |-> NoErr]}
         ELSE loginFailed(c, login.err, login.calls, rows, login.session,
                          login.latencyNs)
         : login \in logins }

\* handleLogout returning the error of Destroy to echo.
handleLogout_ReturnsDestroyError(c, rows) ==
    { [resp    |-> IF destroyOK THEN JSON(StatusOK, TRUE)
                   ELSE ErrorResponse(HTTPError(StatusInternalServerError, "session")),
       cookie  |-> c.cookie,
       session |-> Destroy(c.session, destroyOK),
       rows    |-> rows,
       calls   |-> <<[fn |-> "Destroy", arg |-> <<>>, ok |-> destroyOK]>>,
       latencyNs |-> 0,
       loginErr |-> NoErr]
      : destroyOK \in BOOLEAN }

\* handleLogout(c)
handleLogout(c, rows) ==
    { [resp    |-> JSON(StatusOK, TRUE),
       cookie  |-> c.cookie,
       session |-> Destroy(c.session, destroyOK),
       rows    |-> rows,
       calls   |-> <<[fn |-> "Destroy", arg |-> <<>>, ok |-> destroyOK]>>,
       latencyNs |-> 0,
       loginErr |-> NoErr]
      : destroyOK \in BOOLEAN }

\* handleOIDCLogin without the test for an empty cookie value.
handleOIDCLogin_AcceptsEmptyNonce(c, rows) ==
    LET nonce == c.cookie
        s     == SanitizeURI(c.form.next)
        next  == IF s = Root THEN uriAdmin ELSE s
        e     == HTTPError(StatusUnauthorized, "users.invalidRequest")
    IN IF ~nonce.present \/ nonce.value # c.form.nonce
       THEN {[resp  |-> ErrorResponse(e),
              cookie |-> c.cookie, session |-> c.session, rows |-> rows,
              calls |-> <<>>, latencyNs |-> 0, loginErr |-> e]}
       ELSE {[resp  |-> RedirectTo(StatusFound, GetOIDCAuthURL(next, nonce.value)),
              cookie |-> c.cookie, session |-> c.session, rows |-> rows,
              calls |-> <<Call("GetOIDCAuthURL", <<next, nonce.value>>, NoErr)>>,
              latencyNs |-> 0, loginErr |-> NoErr]}

\* handleOIDCLogin(c)
handleOIDCLogin(c, rows) ==
    LET nonce == c.cookie
        s     == SanitizeURI(c.form.next)
        next  == IF s = Root THEN uriAdmin ELSE s
        e     == HTTPError(StatusUnauthorized, "users.invalidRequest")
    IN IF ~nonce.present \/ nonce.value = <<>> \/ nonce.value # c.form.nonce
       THEN {[resp  |-> ErrorResponse(e),
              cookie |-> c.cookie, session |-> c.session, rows |-> rows,
              calls |-> <<>>, latencyNs |-> 0, loginErr |-> e]}
       ELSE {[resp  |-> RedirectTo(StatusFound, GetOIDCAuthURL(next, nonce.value)),
              cookie |-> c.cookie, session |-> c.session, rows |-> rows,
              calls |-> <<Call("GetOIDCAuthURL", <<next, nonce.value>>, NoErr)>>,
              latencyNs |-> 0, loginErr |-> NoErr]}

\* oidcExchange treating a failed last-login update as a warning: the
\* session is set all the same.
oidcExchange_UpdateBestEffort(c, rows, nonce) ==
    UNION {
      LET ex    == ExchangeOIDCToken(c.query.code, nonce, answer)
          callE == Call("ExchangeOIDCToken", <<c.query.code, nonce>>, ex.err)
      IN IF ex.err # NoErr
         THEN loginFailed(c, ex.err, <<callE>>, rows, c.session, 0)
         ELSE UNION {
           LET get   == GetUser(rows, roles, 0, <<>>, ex.claims.Email, dbOK)
               callG == Call("GetUser", <<0, <<>>, ex.claims.Email>>, get.err)
           IN IF get.err # NoErr
              THEN loginFailed(c, get.err, <<callE, callG>>, rows, c.session, 0)
              ELSE UNION {
                LET upd   == UpdateUserLogin(rows, get.user.id, ex.claims.Picture, updOK)
                    callU == Call("UpdateUserLogin",
                                  <<get.user.id, ex.claims.Picture>>, upd.err)
                IN UNION {
                     LET set   == SetSession(c.session, get.user, ex.token, sessOK)
                         callS == Call("SetSession", <<get.user.id, ex.token, get.user>>, set.err)
                     IN IF set.err # NoErr
                        THEN loginFailed(c, set.err, <<callE, callG, callU, callS>>,
                                         upd.rows, c.session, 0)
                        ELSE {[resp |-> Redirect(StatusFound,
                                                 SanitizeURI(c.query.state)),
                               cookie |-> c.cookie, session |-> set.session,
                               rows |-> upd.rows,
                               calls |-> <<callE, callG, callU, callS>>,
                               latencyNs |-> 0, loginErr |-> NoErr]}
                     : sessOK \in BOOLEAN }
                : updOK \in BOOLEAN }
           : dbOK \in BOOLEAN }
      : answer \in Answers }

\* handleOIDCFinish, after the nonce cookie check: exchange the code with
\* nonce, fetch the user, update the login, set the session, redirect.
oidcExchange(c, rows, nonce) ==
    UNION {
      LET ex    == ExchangeOIDCToken(c.query.code, nonce, answer)
          callE == Call("ExchangeOIDCToken", <<c.query.code, nonce>>, ex.err)
      IN IF ex.err # NoErr
         THEN loginFailed(c, ex.err, <<callE>>, rows, c.session, 0)
         ELSE UNION {
           LET get   == GetUser(rows, roles, 0, <<>>, ex.claims.Email, dbOK)
               callG == Call("GetUser", <<0, <<>>, ex.claims.Email>>, get.err)
           IN IF get.err # NoErr
              THEN loginFailed(c, get.err, <<callE, callG>>, rows, c.session, 0)
              ELSE UNION {
                LET upd   == UpdateUserLogin(rows, get.user.id, ex.claims.Picture, updOK)
                    callU == Call("UpdateUserLogin",
                                  <<get.user.id, ex.claims.Picture>>, upd.err)
                IN IF upd.err # NoErr
                   THEN loginFailed(c, upd.err, <<callE, callG, callU>>, rows,
                                    c.session, 0)
                   ELSE UNION {
                     LET set   == SetSession(c.session, get.user, ex.token, sessOK)
                         callS == Call("SetSession", <<get.user.id, ex.token, get.user>>, set.err)
                     IN IF set.err # NoErr
                        THEN loginFailed(c, set.err, <<callE, callG, callU, callS>>,
                                         upd.rows, c.session, 0)
                        ELSE {[resp |-> Redirect(StatusFound,
                                                 SanitizeURI(c.query.state)),
                               cookie |-> c.cookie, session |-> set.session,
                               rows |-> upd.rows,
                               calls |-> <<callE, callG, callU, callS>>,
                               latencyNs |-> 0, loginErr |-> NoErr]}
                     : sessOK \in BOOLEAN }
                : updOK \in BOOLEAN }
           : dbOK \in BOOLEAN }
      : answer \in Answers }

\* handleOIDCFinish without the test for an empty cookie value.
handleOIDCFinish_AcceptsEmptyNonce(c, rows) ==
    LET nonce == c.cookie
    IN IF ~nonce.present
       THEN loginFailed(c, HTTPError(StatusUnauthorized, "users.invalidRequest"),
                        <<>>, rows, c.session, 0)
       ELSE oidcExchange(c, rows, nonce.value)

\* handleOIDCFinish handing the state parameter to the exchange as the nonce.
handleOIDCFinish_StateAsNonce(c, rows) ==
    LET nonce == c.cookie
    IN IF ~nonce.present \/ nonce.value = <<>>
       THEN loginFailed(c, HTTPError(StatusUnauthorized, "users.invalidRequest"),
                        <<>>, rows, c.session, 0)
       ELSE oidcExchange(c, rows, c.query.state)

\* handleOIDCFinish(c)
handleOIDCFinish(c, rows) ==
    LET nonce == c.cookie
    IN IF ~nonce.present \/ nonce.value = <<>>
       THEN loginFailed(c, HTTPError(StatusUnauthorized, "users.invalidRequest"),
                        <<>>, rows, c.session, 0)
       ELSE oidcExchange(c, rows, nonce.value)

----------------------------------------------------------------------------
(* Inputs *)

\* Usernames and passwords around the length limits, with surrounding blanks.
Usernames == { Pad(1, 2, 0), Pad(1, 3, 1), Pad(0, 4, 0), Pad(1, stdInputMaxLen, 1),
               Pad(0, stdInputMaxLen + 1, 0) }

Passwords == { Pad(1, 7, 0), Pad(1, 8, 1), Pad(1, stdInputMaxLen, 1),
               Pad(0, stdInputMaxLen + 1, 0) }

\* The username and password pairs submitted: every username with the
\* password of user 1, every password with the username of user 1, and the
\* credentials of user 2.
Credentials ==
    { up \in Usernames \X Passwords :
        \/ up[1] = Pad(1, 3, 1)
        \/ up[2] = Pad(1, 8, 1)
        \/ up = <<Pad(1, stdInputMaxLen, 1), Pad(1, stdInputMaxLen, 1)>> }

\* next / state values: absent, the root path, a relative path, an absolute
\* URL, a URL with a host and no scheme.
RelPath == <<"/", "a">>
AbsURL == <<"s", ":", "/", "/", "e", "/", "a">>
HostURL == <<"/", "/", "e">>
NextValues == { <<>>, Root, RelPath, AbsURL, HostURL }

\* The nonce field of a form: absent, or any nonce.
FormNonces == { <<>> } \cup Nonces

\* The nonce field of the login form: absent (a forged form), or the nonce
\* of the page the client holds.
PostNonces == { <<>>, cookie.value }

\* The state parameter of a callback: absent, a nonce, a path, a URL.
StateValues == { <<>>, <<"z">>, RelPath, AbsURL, HostURL }

NoForm == [username |-> <<>>, password |-> <<>>, next |-> <<>>, nonce |-> <<>>]
NoQuery == [code |-> <<>>, state |-> <<>>]

\* The request context c of a handler.
Context(handler, method, form, query) ==
    [handler |-> handler, method |-> method, cookie |-> cookie,
     session |-> session, form |-> form, query |-> query]

\* The request as kept in req.
Request(c) == c

NoRequest == [handler |-> "none", method |-> "",
              cookie |-> [present |-> FALSE, value |-> <<>>],
              session |-> NoSession, form |-> NoForm, query |-> NoQuery]

\* No core operation performed.
NoCore == [op |-> "none", id |-> 0, out |-> <<>>, err |-> NoErr]

\* No concurrent attempts.
NoProcs == <<>>

----------------------------------------------------------------------------
(* State machine *)

Init ==
    /\ cookie \in { [present |-> FALSE, value |-> <<>>],
                    [present |-> TRUE, value |-> <<>>] }
    /\ session = NoSession
    /\ users = InitUsers
    /\ req = NoRequest
    /\ calls = <<>>
    /\ resp = NoResp
    /\ loginErr = NoErr
    /\ latencyNs = 0
    /\ issued = <<>>
    /\ usedNonces = {}
    /\ roles = InitRoles
    /\ lastID = 2
    /\ core = NoCore
    /\ procs = NoProcs

Idle == req.handler = "none"

\* The server handles request c with outcome r.
Handle(c, r) ==
    /\ cookie' = r.cookie
    /\ session' = r.session
    /\ users' = r.rows
    /\ req' = Request(c)
    /\ calls' = r.calls
    /\ resp' = r.resp
    /\ loginErr' = r.loginErr
    /\ latencyNs' = r.latencyNs
    /\ issued' = IF r.resp.kind = "render"
                 THEN <<r.resp.page.Nonce>>
                          \o (IF issued = <<>> THEN <<>> ELSE <<issued[1]>>)
                 ELSE issued
    /\ UNCHANGED <<roles, lastID, core, procs>>

\* The cookie nonce of c, when it carries one.
NonceOf(c) == IF c.cookie.present /\ c.cookie.value # <<>> THEN {c.cookie.value} ELSE {}

\* GET /login
LoginPageGet ==
    /\ Idle
    /\ \E next \in NextValues :
        LET c == Context("handleLoginPage", "GET", [NoForm EXCEPT !.next = next], NoQuery)
        IN \E r \in handleLoginPage(c, users) :
              Handle(c, r) /\ UNCHANGED usedNonces

\* POST /login
LoginPagePost ==
    /\ Idle
    /\ \E up \in Credentials, next \in NextValues, nonce \in PostNonces :
        LET c == Context("handleLoginPage", "POST",
                         [username |-> up[1], password |-> up[2],
                          next |-> next, nonce |-> nonce], NoQuery)
        IN \E r \in handleLoginPage(c, users) :
              /\ Handle(c, r)
              /\ usedNonces' = IF c.form.nonce = c.cookie.value
                               THEN usedNonces \cup NonceOf(c) ELSE usedNonces

\* POST /logout, behind the session middleware
Logout ==
    /\ Idle
    /\ session.exists
    /\ LET c == Context("handleLogout", "POST", NoForm, NoQuery)
       IN \E r \in handleLogout(c, users) :
             Handle(c, r) /\ UNCHANGED usedNonces

\* POST /auth/oidc
OIDCLogin ==
    /\ Idle
    /\ \E next \in NextValues, nonce \in FormNonces :
        LET c == Context("handleOIDCLogin", "POST",
                         [NoForm EXCEPT !.next = next, !.nonce = nonce], NoQuery)
        IN \E r \in handleOIDCLogin(c, users) :
              Handle(c, r) /\ UNCHANGED usedNonces

\* GET /auth/oidc (the provider's callback)
OIDCFinish ==
    /\ Idle
    /\ \E state \in StateValues :
        LET c == Context("handleOIDCFinish", "GET", NoForm,
                         [code |-> <<"c">>, state |-> state])
        IN \E r \in handleOIDCFinish(c, users) :
              /\ Handle(c, r)
              /\ usedNonces' = usedNonces \cup NonceOf(c)

\* The response has been sent; the server waits for the next request.
Done ==
    /\ ~Idle
    /\ req' = NoRequest
    /\ calls' = <<>>
    /\ resp' = NoResp
    /\ loginErr' = NoErr
    /\ latencyNs' = 0
    /\ UNCHANGED <<cookie, session, users, issued, usedNonces, roles, lastID, core,
                   procs>>

Next == LoginPageGet \/ LoginPagePost \/ Logout \/ OIDCLogin \/ OIDCFinish \/ Done

Spec == Init /\ [][Next]_vars

----------------------------------------------------------------------------
(* The user core on its own: the operations of the core called one after    *)
(* the other on a store whose roles change in between.                      *)

\* The user structs handed to CreateUser, UpdateUser and UpdateUserProfile:
\* an API user given an e-mail, and an interactive user with a password.
UserInputs ==
    { [NoUser EXCEPT !.username = <<"b">>, !.email = <<"x">>,
                     !.type = UserTypeAPI, !.name = "n", !.status = "enabled",
                     !.passwordLogin = TRUE, !.roleID = 1],
      [NoUser EXCEPT !.username = <<"b">>, !.email = <<"x">>,
                     !.password = <<"p">>, !.type = UserTypeUser,
                     !.name = "n", !.status = "enabled", !.roleID = 2] }

\* What a role can be updated to in the store.
RoleVariants ==
    { [name |-> "manager", permissions |-> ps, lists |-> raw] :
        ps \in RolePermLists, raw \in RolePayloads }

CoreInit ==
    /\ cookie = [present |-> FALSE, value |-> <<>>]
    /\ session = NoSession
    /\ users = InitUsers
    /\ req = NoRequest
    /\ calls = <<>>
    /\ resp = NoResp
    /\ loginErr = NoErr
    /\ latencyNs = 0
    /\ issued = <<>>
    /\ usedNonces = {}
    /\ roles = InitRoles
    /\ lastID = 2
    /\ core = NoCore
    /\ procs = NoProcs

CoreIdle == core.op = "none"

\* The operation op on user id returned out and err, leaving the store with
\* rows and the last id given.
CoreReturn(op, id, out, err, rows, last) ==
    /\ core' = [op |-> op, id |-> id, out |-> out, err |-> err]
    /\ users' = rows
    /\ lastID' = last
    /\ UNCHANGED <<cookie, session, req, calls, resp, loginErr, latencyNs,
                   issued, usedNonces, roles, procs>>

CoreGetUsers ==
    /\ CoreIdle
    /\ \E dbOK \in BOOLEAN :
         LET r == GetUsers(users, roles, dbOK)
         IN CoreReturn("GetUsers", 0, r.out, r.err, users, lastID)

CoreGetUser ==
    /\ CoreIdle
    /\ \E id \in 0..MaxUserID, dbOK \in BOOLEAN :
         LET r == GetUser(users, roles, id, <<>>, <<>>, dbOK)
         IN CoreReturn("GetUser", id, <<r.user>>, r.err, users, lastID)

CoreCreateUser ==
    /\ CoreIdle
    /\ lastID < MaxUserID
    /\ \E u \in UserInputs, rnd \in RandReads(TokenLen), dbOK \in BOOLEAN,
          getOK \in BOOLEAN :
         LET r == CreateUser(users, roles, lastID, u, rnd, dbOK, getOK)
         IN CoreReturn("CreateUser", IF r.last # lastID THEN r.last ELSE 0,
                       <<r.user>>, r.err, r.rows, r.last)

\* The user updated is the one created last, or one the store does not hold.
CoreUpdateUser ==
    /\ CoreIdle
    /\ \E id \in {lastID, lastID + 1}, u \in UserInputs, dbOK \in BOOLEAN,
          getOK \in BOOLEAN :
         LET r == UpdateUser(users, roles, id, u, dbOK, getOK)
         IN CoreReturn("UpdateUser", id, <<r.user>>, r.err, r.rows, lastID)

CoreUpdateUserProfile ==
    /\ CoreIdle
    /\ \E id \in {lastID, lastID + 1}, u \in UserInputs, dbOK \in BOOLEAN,
          getOK \in BOOLEAN :
         LET r == UpdateUserProfile(users, roles, id, u, dbOK, getOK)
         IN CoreReturn("UpdateUserProfile", id, <<r.user>>, r.err, r.rows, lastID)

\* The store's role 1 is updated (by the role operations of the core, which
\* are outside this model).
StoreUpdateRole ==
    /\ CoreIdle
    /\ \E v \in RoleVariants :
         /\ roles[1] # v
         /\ roles' = [roles EXCEPT ![1] = v]
    /\ UNCHANGED <<cookie, session, users, req, calls, resp, loginErr,
                   latencyNs, issued, usedNonces, lastID, core, procs>>

\* The caller has the result; the core waits for the next call.
CoreDone ==
    /\ ~CoreIdle
    /\ core' = NoCore
    /\ UNCHANGED <<cookie, session, users, req, calls, resp, loginErr,
                   latencyNs, issued, usedNonces, roles, lastID, procs>>

CoreNext ==
    \/ CoreGetUsers \/ CoreGetUser \/ CoreCreateUser \/ CoreUpdateUser
    \/ CoreUpdateUserProfile \/ StoreUpdateRole \/ CoreDone

CoreSpec == CoreInit /\ [][CoreNext]_vars

----------------------------------------------------------------------------
(* Concurrent login attempts: two clients, each with its own nonce cookie   *)
(* and session, each in a handler of its own; the handlers take their steps *)
(* (one per collaborator call) in any interleaving.  What a handler holds   *)
(* between steps are its local variables; the store is shared.              *)

Clients == {1, 2}

\* A request context of a client of its own.
ClientContext(handler, method, ck, form, query) ==
    [handler |-> handler, method |-> method, cookie |-> ck,
     session |-> NoSession, form |-> form, query |-> query]

\* The attempts a client can make: a password login of user 1, one of user
\* 2, one with a username the store does not hold, one with a username too
\* short, a federated callback with a nonce cookie, and one without.
ConcRequests ==
    { ClientContext("handleLoginPage", "POST", [present |-> FALSE, value |-> <<>>],
          [NoForm EXCEPT !.username = up[1], !.password = up[2], !.next = RelPath],
          NoQuery)
        : up \in { <<Pad(1, 3, 1), Pad(1, 8, 1)>>,
                   <<Pad(1, stdInputMaxLen, 1), Pad(1, stdInputMaxLen, 1)>>,
                   <<Pad(0, 4, 0), Pad(1, 8, 1)>>,
                   <<Pad(1, 2, 0), Pad(1, 8, 1)>> } }
    \cup
    { ClientContext("handleOIDCFinish", "GET", ck, NoForm,
          [code |-> <<"c">>, state |-> RelPath])
        : ck \in {[present |-> TRUE, value |-> <<"0">>],
                  [present |-> FALSE, value |-> <<>>]} }

\* A handler that has just been entered with the request c.
Entered(c) ==
    [pc |-> "enter", c |-> c, user |-> NoUser, token |-> <<>>,
     claims |-> [Email |-> <<>>, Picture |-> <<>>], calls |-> <<>>,
     err |-> NoErr, cookie |-> c.cookie, session |-> c.session, resp |-> NoResp]

ConcInit ==
    /\ cookie = [present |-> FALSE, value |-> <<>>]
    /\ session = NoSession
    /\ users = InitUsers
    /\ req = NoRequest
    /\ calls = <<>>
    /\ resp = NoResp
    /\ loginErr = NoErr
    /\ latencyNs = 0
    /\ issued = <<>>
    /\ usedNonces = {}
    /\ roles = InitRoles
    /\ lastID = 2
    /\ core = NoCore
    /\ procs \in [Clients -> {Entered(c) : c \in ConcRequests}]

\* Client p's handler goes on to pc with its variables changed to v.
Step(p, v) ==
    /\ procs' = [procs EXCEPT ![p] = v]
    /\ UNCHANGED <<cookie, session, req, calls, resp, loginErr, latencyNs,
                   issued, usedNonces, roles, lastID, core>>

\* The handler fails with e: renderLoginPage(c, e) is next.
Failing(s, e) == [s EXCEPT !.pc = "render", !.err = e]

\* doLogin up to `start`: the form values are trimmed and checked.
\* handleOIDCFinish up to the exchange: the nonce cookie is checked.
ConcEnter(p) ==
    LET s == procs[p]
        username == TrimSpace(s.c.form.username)
        password == TrimSpace(s.c.form.password)
    IN /\ s.pc = "enter"
       /\ UNCHANGED users
       /\ IF s.c.handler = "handleLoginPage"
          THEN IF ~strHasLen(username, 3, stdInputMaxLen)
               THEN Step(p, Failing(s, HTTPError(StatusBadRequest,
                                      "globals.messages.invalidFields:username")))
               ELSE IF ~strHasLen(password, 8, stdInputMaxLen)
               THEN Step(p, Failing(s, HTTPError(StatusBadRequest,
                                      "globals.messages.invalidFields:password")))
               ELSE Step(p, [s EXCEPT !.pc = "login"])
          ELSE IF ~s.c.cookie.present \/ s.c.cookie.value = <<>>
               THEN Step(p, Failing(s, HTTPError(StatusUnauthorized,
                                                 "users.invalidRequest")))
               ELSE Step(p, [s EXCEPT !.pc = "exchange"])

\* doLogin: app.core.LoginUser(username, password)
ConcLoginUser(p) ==
    LET s == procs[p]
        username == TrimSpace(s.c.form.username)
        password == TrimSpace(s.c.form.password)
    IN /\ s.pc = "login"
       /\ UNCHANGED users
       /\ \E dbOK \in BOOLEAN :
            LET login == LoginUser(users, roles, username, password, dbOK)
                cs    == Append(s.calls,
                                Call("LoginUser", <<username, password>>, login.err))
            IN IF login.err # NoErr
               THEN Step(p, [Failing(s, login.err) EXCEPT !.calls = cs])
               ELSE Step(p, [s EXCEPT !.pc = "set", !.user = login.user,
                                      !.calls = cs])

\* handleOIDCFinish: app.auth.ExchangeOIDCToken(code, nonce.Value)
ConcExchange(p) ==
    LET s == procs[p]
    IN /\ s.pc = "exchange"
       /\ UNCHANGED users
       /\ \E answer \in Answers :
            LET ex == ExchangeOIDCToken(s.c.query.code, s.c.cookie.value, answer)
                cs == Append(s.calls,
                             Call("ExchangeOIDCToken",
                                  <<s.c.query.code, s.c.cookie.value>>, ex.err))
            IN IF ex.err # NoErr
               THEN Step(p, [Failing(s, ex.err) EXCEPT !.calls = cs])
               ELSE Step(p, [s EXCEPT !.pc = "get", !.token = ex.token,
                                      !.claims = ex.claims, !.calls = cs])

\* handleOIDCFinish: app.core.GetUser(0, "", claims.Email)
ConcGetUser(p) ==
    LET s == procs[p]
    IN /\ s.pc = "get"
       /\ UNCHANGED users
       /\ \E dbOK \in BOOLEAN :
            LET get == GetUser(users, roles, 0, <<>>, s.claims.Email, dbOK)
                cs  == Append(s.calls,
                              Call("GetUser", <<0, <<>>, s.claims.Email>>, get.err))
            IN IF get.err # NoErr
               THEN Step(p, [Failing(s, get.err) EXCEPT !.calls = cs])
               ELSE Step(p, [s EXCEPT !.pc = "update", !.user = get.user,
                                      !.calls = cs])

\* handleOIDCFinish: app.core.UpdateUserLogin(user.ID, claims.Picture)
ConcUpdateUserLogin(p) ==
    LET s == procs[p]
    IN /\ s.pc = "update"
       /\ \E updOK \in BOOLEAN :
            LET upd == UpdateUserLogin(users, s.user.id, s.claims.Picture, updOK)
                cs  == Append(s.calls,
                              Call("UpdateUserLogin",
                                   <<s.user.id, s.claims.Picture>>, upd.err))
            IN /\ users' = upd.rows
               /\ IF upd.err # NoErr
                  THEN Step(p, [Failing(s, upd.err) EXCEPT !.calls = cs])
                  ELSE Step(p, [s EXCEPT !.pc = "set", !.calls = cs])

\* The call of SetSession with the user that another client's handler
\* fetched, as if the handlers kept the user in a variable they share.
setSession_SharedUser(ps, p, ok) ==
    LET s      == ps[p]
        q      == CHOOSE x \in Clients : x # p
        user   == IF ps[q].user # NoUser THEN ps[q].user ELSE s.user
        set    == SetSession(s.session, user, s.token, ok)
        cs     == Append(s.calls,
                         Call("SetSession", <<user.id, s.token, user>>, set.err))
    IN IF set.err # NoErr
       THEN [Failing(s, set.err) EXCEPT !.calls = cs]
       ELSE [s EXCEPT !.pc = "redirect", !.session = set.session, !.calls = cs]

\* app.auth.SetSession(user, token, c) with the handler's own user and
\* token (the token is empty in doLogin): the handler of client p afterwards.
setSession(ps, p, ok) ==
    LET s      == ps[p]
        set    == SetSession(s.session, s.user, s.token, ok)
        cs     == Append(s.calls,
                         Call("SetSession", <<s.user.id, s.token, s.user>>, set.err))
    IN IF set.err # NoErr
       THEN [Failing(s, set.err) EXCEPT !.calls = cs]
       ELSE [s EXCEPT !.pc = "redirect", !.session = set.session, !.calls = cs]

\* doLogin / handleOIDCFinish: the session is set.
ConcSetSession(p) ==
    /\ procs[p].pc = "set"
    /\ UNCHANGED users
    /\ \E ok \in BOOLEAN : Step(p, setSession(procs, p, ok))

\* handleLoginPage / handleOIDCFinish: the redirect after a success.
ConcRedirect(p) ==
    LET s == procs[p]
        target == IF s.c.handler = "handleLoginPage"
                  THEN SanitizeURI(s.c.form.next)
                  ELSE SanitizeURI(s.c.query.state)
    IN /\ s.pc = "redirect"
       /\ UNCHANGED users
       /\ Step(p, [s EXCEPT !.pc = "done",
                            !.resp = Redirect(StatusFound, target)])

\* renderLoginPage(c, err) after a failure.
ConcRender(p) ==
    LET s == procs[p]
    IN /\ s.pc = "render"
       /\ UNCHANGED users
       /\ \E page \in renderLoginPage(s.c, s.err) :
            Step(p, [s EXCEPT !.pc = "done", !.resp = page.resp,
                              !.cookie = page.cookie])

ConcNext ==
    \E p \in Clients :
        \/ ConcEnter(p) \/ ConcLoginUser(p) \/ ConcExchange(p) \/ ConcGetUser(p)
        \/ ConcUpdateUserLogin(p) \/ ConcSetSession(p) \/ ConcRedirect(p)
        \/ ConcRender(p)

ConcSpec == ConcInit /\ [][ConcNext]_vars

----------------------------------------------------------------------------
(* Properties *)

Handled(h) == req.handler = h

PasswordSubmission == Handled("handleLoginPage") /\ req.method = "POST"

Called(fn) == \E i \in 1..Len(calls) : calls[i].fn = fn

CalledOK(fn) == \E i \in 1..Len(calls) : calls[i].fn = fn /\ calls[i].ok

\* The calls made are exactly fns, in this order, and all succeeded.
CallsOK(fns) ==
    /\ Len(calls) = Len(fns)
    /\ \A i \in 1..Len(fns) : calls[i].fn = fns[i] /\ calls[i].ok

\* The request carried a non-empty nonce cookie.
HasNonceCookie == req.cookie.present /\ req.cookie.value # <<>>

Unauthorized == HTTPError(StatusUnauthorized, "users.invalidRequest")

\* The bare error renderLoginPage returns when it cannot make a nonce.
NonceFailure ==
    ErrorResponse(HTTPError(StatusBadRequest, "globals.messages.internalError"))

\* The login page was rendered (HTTP 200) carrying the error e.
PageWith(e) ==
    /\ resp.kind = "render"
    /\ resp.status = StatusOK
    /\ resp.page.Error = e.msg

AuthenticatedPassword ==
    /\ PasswordSubmission
    /\ CallsOK(<<"LoginUser", "SetSession">>)

AuthenticatedFederated ==
    /\ Handled("handleOIDCFinish")
    /\ CallsOK(<<"ExchangeOIDCToken", "GetUser", "UpdateUserLogin", "SetSession">>)

\* SetSession is called only as the last call, after every step before it
\* succeeded.
SetSessionLast ==
    \A i \in 1..Len(calls) :
        calls[i].fn = "SetSession" =>
            /\ i = Len(calls)
            /\ \A j \in 1..(i - 1) : calls[j].ok
            /\ \/ PasswordSubmission /\ i = 2 /\ calls[1].fn = "LoginUser"
               \/ /\ Handled("handleOIDCFinish") /\ i = 4
                  /\ calls[1].fn = "ExchangeOIDCToken"
                  /\ calls[2].fn = "GetUser"
                  /\ calls[3].fn = "UpdateUserLogin"

\* C1: SetSession is called only after LoginUser returned a user (password
\* path) or after exchange, user lookup and last-login update all succeeded
\* (federated path), and no step of any request sequence makes a session
\* exist, or changes it, other than such a successful login.
C1_SessionOnlyAfterAuthentication ==
    [][ /\ SetSessionLast'
        /\ (session' # session /\ session'.exists) =>
              /\ AuthenticatedPassword' \/ AuthenticatedFederated'
              /\ session'.user = calls'[Len(calls')].arg[1]
              /\ session'.user \in UserIDs ]_vars

C1_Witness ==
    /\ AuthenticatedFederated
    /\ session.exists
    /\ ~req.session.exists

\* The trimmed value of a form field, as doLogin sees it.
Trimmed(field) == TrimSpace(field)

BadLength(field, min) ==
    Len(Trimmed(field)) < min \/ Len(Trimmed(field)) > stdInputMaxLen

\* C2: a password submission whose trimmed username is shorter than 3 or
\* longer than the maximum, or whose trimmed password is shorter than 8 or
\* longer than the maximum, fails with a bad-request error, makes no call to
\* the store (or any collaborator) and leaves the session as it was.
C2_InvalidLengthNeverReachesStore ==
    (PasswordSubmission
        /\ (BadLength(req.form.username, 3) \/ BadLength(req.form.password, 8)))
    => /\ loginErr.kind = "http"
       /\ loginErr.code = StatusBadRequest
       /\ ~Called("LoginUser")
       /\ calls = <<>>
       /\ session = req.session

\* A password of 7 letters that is 8 characters long before trimming.
C2_Witness ==
    /\ PasswordSubmission
    /\ ~BadLength(req.form.username, 3)
    /\ Len(req.form.password) >= 8
    /\ Len(Trimmed(req.form.password)) < 8
    /\ loginErr.code = StatusBadRequest

\* C3 (as claimed): every failed password attempt that reached the store
\* takes at least the floor of 100ms from `start` to its return.
C3_FailedAttemptTakesFloor ==
    (PasswordSubmission /\ Called("LoginUser") /\ ~CalledOK("LoginUser"))
    => latencyNs >= MinResponseMs * NsPerMs

GoodNoncePair == HasNonceCookie /\ req.cookie.value = req.form.nonce

\* C4: federated initiation answers Unauthorized, with no redirect and no
\* authorization URL built, whenever the nonce cookie is absent, empty or
\* different from the form nonce; otherwise it redirects to the provider's
\* authorization URL built with the cookie nonce as correlation value.
C4_InitiationNonceCheck ==
    Handled("handleOIDCLogin") =>
        /\ ~GoodNoncePair =>
              /\ resp = ErrorResponse(Unauthorized)
              /\ loginErr = Unauthorized
              /\ calls = <<>>
        /\ GoodNoncePair =>
              /\ resp.kind = "redirect"
              /\ resp.location.provider
              /\ resp.location.nonce = req.cookie.value
              /\ CallsOK(<<"GetOIDCAuthURL">>)
              /\ calls[1].arg[2] = req.cookie.value
        /\ resp.kind = "redirect" => GoodNoncePair

\* An initiation with a nonce cookie and a different, non-empty form nonce.
C4_Witness ==
    /\ Handled("handleOIDCLogin")
    /\ HasNonceCookie
    /\ req.form.nonce # <<>>
    /\ req.form.nonce # req.cookie.value
    /\ resp.status = StatusUnauthorized

\* C5 (as claimed): a password submission reaches the store, or changes the
\* session, only when the nonce cookie is non-empty and equals the form nonce.
C5_PasswordPathChecksNonce ==
    (PasswordSubmission /\ (Called("LoginUser") \/ session # req.session))
    => GoodNoncePair

\* C6 (as claimed): a callback with no nonce cookie, or an empty one, fails
\* with Unauthorized, calls no collaborator, leaves the session alone, and
\* the login page is re-rendered carrying the Unauthorized error.
C6_MissingNonceRerendersPage ==
    (Handled("handleOIDCFinish") /\ ~HasNonceCookie)
    => /\ loginErr = Unauthorized
       /\ calls = <<>>
       /\ session = req.session
       /\ PageWith(Unauthorized)

\* C6 (amended): as above, but the page is re-rendered only if a nonce can be
\* generated for it; if not, the answer is the bare internal-error response
\* and the cookie is left as it was.
C6_MissingNonceUnauthorized ==
    (Handled("handleOIDCFinish") /\ ~HasNonceCookie)
    => /\ loginErr = Unauthorized
       /\ calls = <<>>
       /\ ~Called("ExchangeOIDCToken") /\ ~Called("GetUser")
       /\ ~Called("UpdateUserLogin") /\ ~Called("SetSession")
       /\ session = req.session
       /\ \/ PageWith(Unauthorized)
          \/ resp = NonceFailure /\ cookie = req.cookie

\* A callback with an empty nonce cookie, answered with the page.
C6_Witness ==
    /\ Handled("handleOIDCFinish")
    /\ req.cookie.present
    /\ req.cookie.value = <<>>
    /\ PageWith(Unauthorized)

\* A callback with a nonce cookie whose state is absent or is not that nonce.
StateMismatch ==
    /\ Handled("handleOIDCFinish")
    /\ HasNonceCookie
    /\ req.query.state # req.cookie.value

\* C7 (as claimed): such a callback gets the login page with the
\* Unauthorized message, never exchanges the code, never creates a session.
C7_StateMismatchRejected ==
    StateMismatch
    => /\ PageWith(Unauthorized)
       /\ ~Called("ExchangeOIDCToken")
       /\ session = req.session

\* C7 (amended): the state is never compared with the nonce.  Such a
\* callback exchanges the code with the cookie nonce; when exchange, lookup,
\* update and session creation all succeed it creates the session and
\* redirects to the sanitized state; otherwise the session is untouched and
\* the login page is rendered with that step's error, which is never
\* Unauthorized (or the bare error, if no nonce can be generated).
C7_StateNotCompared ==
    StateMismatch
    => /\ Len(calls) >= 1
       /\ calls[1].fn = "ExchangeOIDCToken"
       /\ calls[1].arg = <<req.query.code, req.cookie.value>>
       /\ IF AuthenticatedFederated
          THEN /\ loginErr = NoErr
               /\ resp = Redirect(StatusFound, SanitizeURI(req.query.state))
               /\ session.exists
               /\ session.user = calls[4].arg[1]
          ELSE /\ loginErr # NoErr
               /\ loginErr # Unauthorized
               /\ session = req.session
               /\ PageWith(loginErr) \/ resp = NonceFailure

\* A callback with no state at all that logs the user in.
C7_Witness ==
    /\ StateMismatch
    /\ req.query.state = <<>>
    /\ AuthenticatedFederated
    /\ session.exists
    /\ resp.kind = "redirect"

Rejected == resp = ErrorResponse(Unauthorized)

\* C8 (as claimed): every render sets the cookie to a fresh nonce, two
\* renders give two distinct nonces, and an initiation submitting the nonce
\* of the render before the latest one is rejected.
C8_NoncesDistinct ==
    /\ resp.kind = "render" =>
          /\ cookie = [present |-> TRUE, value |-> resp.page.Nonce]
          /\ Len(issued) = 2 => issued[1] # issued[2]
    /\ (Handled("handleOIDCLogin") /\ Len(issued) = 2
            /\ req.form.nonce = issued[2]) => Rejected

\* C8 (amended): every render draws a new random nonce and overwrites the
\* cookie with it; an initiation is accepted only with the nonce of the
\* latest render, so the nonce of the render before is rejected whenever the
\* two differ (two draws can coincide).
C8_LatestNonceOnly ==
    /\ resp.kind = "render" =>
          /\ resp.page.Nonce \in Nonces
          /\ cookie = [present |-> TRUE, value |-> resp.page.Nonce]
          /\ issued[1] = resp.page.Nonce
    /\ (Handled("handleOIDCLogin") /\ resp.kind = "redirect") =>
          /\ issued # <<>>
          /\ req.form.nonce = issued[1]
    /\ (Handled("handleOIDCLogin") /\ Len(issued) = 2
            /\ req.form.nonce = issued[2] /\ issued[2] # issued[1]) => Rejected

\* After two renders, an initiation with the first render's nonce.
C8_Witness ==
    /\ Handled("handleOIDCLogin")
    /\ Len(issued) = 2
    /\ issued[1] # issued[2]
    /\ req.form.nonce = issued[2]
    /\ Rejected

\* A password submission or a federated callback
Attempt == PasswordSubmission \/ Handled("handleOIDCFinish")

\* C9 (as claimed): no initiation or callback is accepted with a nonce that
\* an earlier processed password submission or callback has used.
C9_NonceNeverReused ==
    [][ ( \/ req'.handler = "handleOIDCLogin" /\ resp'.kind = "redirect"
          \/ req'.handler = "handleOIDCFinish" /\ calls' # <<>> )
        => req'.cookie.value \notin usedNonces ]_vars

\* C9 (amended): nothing invalidates a nonce but the next render of the
\* login page.  A successful attempt leaves the nonce cookie as it was; a
\* failed one replaces it only by re-rendering the page; and whether an
\* initiation or callback is accepted depends on the cookie (and form) alone,
\* not on what the nonce was used for before.
C9_NonceReplacedOnlyByRender ==
    /\ (Attempt /\ loginErr = NoErr) => cookie = req.cookie
    /\ (Attempt /\ loginErr # NoErr) =>
          \/ resp.kind = "render"
               /\ cookie = [present |-> TRUE, value |-> resp.page.Nonce]
          \/ resp = NonceFailure /\ cookie = req.cookie
    /\ Handled("handleOIDCLogin") => (resp.kind = "redirect" <=> GoodNoncePair)
    /\ Handled("handleOIDCFinish") => (calls # <<>> <=> HasNonceCookie)

\* An initiation accepted with a nonce that a successful login used before.
C9_Witness ==
    /\ Handled("handleOIDCLogin")
    /\ resp.kind = "redirect"
    /\ req.cookie.value \in usedNonces
    /\ req.session.exists

\* C10 (as claimed): every failure ends in the login page re-rendered with
\* the error message.
C10_EveryFailureRerenders ==
    (~Idle /\ loginErr # NoErr) => PageWith(loginErr)

\* C10 (amended): every failure of a password submission or a callback ends
\* in the login page re-rendered with the error message, unless no nonce can
\* be generated for the page (bare internal error); a failed initiation is
\* answered with the bare Unauthorized error, not with the page.
C10_FailureOutcomes ==
    (~Idle /\ loginErr # NoErr) =>
        IF Handled("handleOIDCLogin")
        THEN Rejected
        ELSE /\ Attempt
             /\ PageWith(loginErr) \/ resp = NonceFailure

\* A password login whose session could not be created, answered by the page.
C10_Witness ==
    /\ PasswordSubmission
    /\ Called("SetSession")
    /\ ~CalledOK("SetSession")
    /\ PageWith(loginErr)

\* Client-supplied next values that are absolute URLs or carry a host.
UnsafeNext == { AbsURL, HostURL }

\* The redirect targets that derive from a client-supplied next value, as
\* pairs <<value supplied, target>>: the redirect after a password login, the
\* next URI handed to the identity provider, the redirect after a federated
\* callback, and the NextURI of the login page.
PasswordRedirect ==
    IF PasswordSubmission /\ resp.kind = "redirect"
    THEN {<<req.form.next, resp.location.path>>} ELSE {}

InitiationNext ==
    IF Handled("handleOIDCLogin") /\ resp.kind = "redirect"
    THEN {<<req.form.next, resp.location.state>>} ELSE {}

CallbackRedirect ==
    IF Handled("handleOIDCFinish") /\ resp.kind = "redirect"
    THEN {<<req.query.state, resp.location.path>>} ELSE {}

PageNext ==
    IF resp.kind = "render" THEN {<<req.form.next, resp.page.NextURI>>} ELSE {}

\* C11 (as claimed): at all four places an absolute URL or a value with a
\* host becomes the default landing path, and a relative path is passed
\* through unchanged.
C11_UnsafeNextToLanding ==
    \A t \in PasswordRedirect \cup InitiationNext \cup CallbackRedirect \cup PageNext :
        /\ t[1] \in UnsafeNext => t[2] = uriAdmin
        /\ t[1] = RelPath => t[2] = RelPath

\* C11 (amended): no target is ever an absolute URL or a value with a host,
\* and a relative path other than the root path is passed through unchanged
\* everywhere.  An unsafe or absent value becomes the root path in the
\* redirect after a password login and after a federated callback; only the
\* next URI handed to the identity provider and the NextURI of the login page
\* replace the root path (supplied, or the result of sanitizing) by the
\* default landing path.
C11_UnsafeNextNeverFollowed ==
    /\ \A t \in PasswordRedirect \cup CallbackRedirect :
          /\ t[1] \in UnsafeNext \cup {<<>>, Root} => t[2] = Root
          /\ t[1] = RelPath => t[2] = RelPath
    /\ \A t \in InitiationNext \cup PageNext :
          /\ t[1] \in UnsafeNext \cup {<<>>, Root} => t[2] = uriAdmin
          /\ t[1] = RelPath => t[2] = RelPath
    /\ \A t \in PasswordRedirect \cup InitiationNext \cup CallbackRedirect \cup PageNext :
          t[2] \notin UnsafeNext

\* A password login with an absolute URL as next, redirected to the root path.
C11_Witness ==
    /\ PasswordRedirect # {}
    /\ req.form.next = AbsURL
    /\ resp.location.path = Root

----------------------------------------------------------------------------
(* Properties of the user core *)

\* The users a core operation returned.
Fetched == IF core.err = NoErr THEN {core.out[i] : i \in 1..Len(core.out)} ELSE {}

\* The role the store holds for user u.
StoredRole(u) == roles[users[u.id].roleID]

\* The payload is NULL, or JSON that decodes into grants without an error.
Parses(raw) ==
    /\ raw.wellFormed
    /\ \A i \in 1..Len(raw.items) :
          raw.items[i].id.number /\ raw.items[i].permissions.array

\* The permission strings of a sequence.
Strings(ps) == {ps[i] : i \in 1..Len(ps)}

\* C12 (as claimed): for every fetched user whose role's payload parses, the
\* global set is the set of the strings of the role's flat list, the
\* per-resource map has exactly the resource ids named in the role's grants
\* as keys, and the set of a key is the permissions of all the grants naming
\* that resource.
C12_ViewEqualsRoleGrants ==
    \A u \in Fetched :
        LET r == StoredRole(u)
            g == r.lists.items
        IN Parses(r.lists) =>
             /\ u.PermissionsMap = MadeSet(Strings(r.permissions))
             /\ u.ListPermissionsMap.made
             /\ DOMAIN u.ListPermissionsMap.m = {g[i].id.n : i \in 1..Len(g)}
             /\ \A k \in DOMAIN u.ListPermissionsMap.m :
                   u.ListPermissionsMap.m[k] =
                       UNION {Strings(g[i].permissions.elems) :
                                 i \in {j \in 1..Len(g) : g[j].id.n = k}}

\* C13: a user of API type has no e-mail in what GetUsers, GetUser,
\* CreateUser, UpdateUser and UpdateUserProfile return, after any sequence of
\* operations, and the row CreateUser stored for an API user holds the
\* placeholder e-mail username@api.
C13_APIUserEmailScrubbed ==
    /\ \A i \in 1..Len(core.out) :
          core.out[i].type = UserTypeAPI => core.out[i].email = <<>>
    /\ (core.op = "CreateUser" /\ core.id # 0 /\ users[core.id].type = UserTypeAPI)
          => users[core.id].email = users[core.id].username \o APISuffix

\* CreateUser returned an API user with no e-mail while the row holds one.
C13_Witness ==
    /\ core.op = "CreateUser"
    /\ core.err = NoErr
    /\ core.out[1].type = UserTypeAPI
    /\ core.out[1].email = <<>>
    /\ users[core.id].email = <<"b">> \o APISuffix

\* C14: the permission view of every user a core operation returns is the
\* projection of the role and grants the store holds when it returns: the
\* role of the user's row as it is now, its flat list as the global set,
\* its payload decoded as the grants and the per-resource map.
C14_ViewIsProjectionOfStore ==
    \A u \in Fetched :
        LET r     == StoredRole(u)
            lists == IF r.lists.null THEN <<>> ELSE Unmarshal(r.lists).v
        IN /\ u.Role = [ID |-> users[u.id].roleID, Name |-> r.name,
                        Permissions |-> r.permissions, Lists |-> lists]
           /\ u.PermissionsMap = MadeSet(Strings(r.permissions))
           /\ u.ListPermissionsMap = MadeMap(ListPermissionMap(lists))

\* A fetch after a role update: the view follows the role as updated.
C14_Witness ==
    /\ core.op \in {"GetUsers", "GetUser"}
    /\ roles[1] # InitRoles[1]
    /\ \E u \in Fetched :
          /\ u.Role.ID = 1
          /\ u.PermissionsMap.keys # Strings(InitRoles[1].permissions)
          /\ u.PermissionsMap.keys = Strings(roles[1].permissions)

\* C18 (as claimed): when the payload of a fetched user's role fails to
\* parse the user is returned all the same, with its global set built from
\* the flat list, no grants and an empty per-resource map; users whose
\* payload parses carry their grants.
C18_ParseFailureMeansNoGrants ==
    \A u \in Fetched :
        LET r == StoredRole(u)
        IN /\ u.PermissionsMap = MadeSet(Strings(r.permissions))
           /\ ~Parses(r.lists) =>
                 /\ u.Role.Lists = <<>>
                 /\ u.ListPermissionsMap = MadeMap(<<>>)
           /\ Parses(r.lists) => Len(u.Role.Lists) = Len(r.lists.items)

----------------------------------------------------------------------------
(* Properties of the login handshake, continued *)

\* The user structs handed to SetSession while handling the request.
SessionUsers == {calls[i].arg[3] : i \in {j \in 1..Len(calls) : calls[j].fn = "SetSession"}}

\* C15 (as claimed): every user bound to a session, by doLogin from
\* LoginUser and by the federated callback from GetUser, carries a made
\* global permission set and a made per-resource map.
C15_SessionUserExpanded ==
    \A u \in SessionUsers : u.PermissionsMap.made /\ u.ListPermissionsMap.made

CompletionSteps == <<"ExchangeOIDCToken", "GetUser", "UpdateUserLogin", "SetSession">>

\* C16: federated completion makes its calls in the order exchange (with
\* the cookie nonce), user lookup (by the e-mail claimed), last-login update
\* (of the user found), session creation (for that user, with the provider
\* token), and stops at the first that fails: nothing is called without a
\* nonce cookie, a call is made only if every call before it succeeded, a
\* failed attempt leaves the session as it was and is not redirected, and
\* the redirect is issued only once the session was created.
C16_CompletionStepOrder ==
    Handled("handleOIDCFinish") =>
        /\ Len(calls) <= Len(CompletionSteps)
        /\ \A i \in 1..Len(calls) :
              /\ calls[i].fn = CompletionSteps[i]
              /\ i < Len(calls) => calls[i].ok
        /\ ~HasNonceCookie => calls = <<>>
        /\ Len(calls) >= 1 => calls[1].arg = <<req.query.code, req.cookie.value>>
        /\ Len(calls) >= 2 => calls[2].arg[1] = 0 /\ calls[2].arg[2] = <<>>
        /\ Len(calls) >= 3 =>
              /\ calls[3].arg[1] \in DOMAIN users
              /\ calls[2].arg[3] # <<>> =>
                    users[calls[3].arg[1]].email = ToLower(calls[2].arg[3])
        /\ Len(calls) = 4 =>
              /\ calls[4].arg[1] = calls[3].arg[1]
              /\ calls[4].arg[2] # <<>>
        /\ resp.kind = "redirect" <=> CallsOK(CompletionSteps)
        /\ resp.kind = "redirect" =>
              /\ loginErr = NoErr
              /\ session = [exists |-> TRUE, user |-> calls[4].arg[1],
                            oidcToken |-> calls[4].arg[2]]
        /\ resp.kind # "redirect" =>
              /\ loginErr # NoErr
              /\ session = req.session

\* A callback whose last-login update failed: no session call, no redirect.
C16_Witness ==
    /\ Handled("handleOIDCFinish")
    /\ Len(calls) = 3
    /\ ~calls[3].ok
    /\ ~req.session.exists
    /\ ~session.exists
    /\ PageWith(loginErr)

ValidLengths ==
    /\ PasswordSubmission
    /\ ~BadLength(req.form.username, 3)
    /\ ~BadLength(req.form.password, 8)

\* The ids of the rows matching the username and password submitted.
Matching ==
    {i \in DOMAIN users :
        /\ users[i].username = Trimmed(req.form.username)
        /\ users[i].password = Trimmed(req.form.password)}

KnownUsername == \E i \in DOMAIN users : users[i].username = Trimmed(req.form.username)

InvalidCredentials == HTTPError(StatusForbidden, "users.invalidLogin")

InternalError == HTTPError(StatusInternalServerError, "globals.messages.errorFetching")

\* C17: a password submission with valid lengths calls LoginUser with the
\* trimmed values.  When LoginUser fails the error is InvalidCredentials
\* (forbidden) or InternalError, nothing else is called and the session is
\* left alone; a submission matching no row always fails, with the same
\* InvalidCredentials whether the username is unknown or the password
\* wrong; InvalidCredentials is given only when no row matches.  SetSession
\* is called only for the user LoginUser returned, with an empty token.
C17_OutcomeFollowsStoreResult ==
    ValidLengths =>
        /\ Len(calls) >= 1
        /\ calls[1].fn = "LoginUser"
        /\ calls[1].arg = <<Trimmed(req.form.username), Trimmed(req.form.password)>>
        /\ ~calls[1].ok =>
              /\ loginErr \in {InvalidCredentials, InternalError}
              /\ Len(calls) = 1
              /\ session = req.session
        /\ Matching = {} => ~calls[1].ok
        /\ loginErr = InvalidCredentials => Matching = {}
        /\ calls[1].ok =>
              /\ Len(calls) = 2
              /\ calls[2].fn = "SetSession"
              /\ calls[2].arg[1] \in Matching
              /\ calls[2].arg[2] = <<>>
              /\ calls[2].ok => session = [exists |-> TRUE, user |-> calls[2].arg[1],
                                           oidcToken |-> <<>>]
              /\ ~calls[2].ok => session = req.session

\* A username the store does not hold, answered with InvalidCredentials.
C17_Witness ==
    /\ ValidLengths
    /\ ~KnownUsername
    /\ loginErr = InvalidCredentials
    /\ PageWith(InvalidCredentials)

\* C20: logout answers {data: true} with HTTP 200 whether Destroy succeeded
\* or not; the session is gone if it succeeded and is as it was if not.
C20_LogoutAlwaysAcknowledged ==
    Handled("handleLogout") =>
        /\ resp = JSON(StatusOK, TRUE)
        /\ loginErr = NoErr
        /\ Len(calls) = 1
        /\ calls[1].fn = "Destroy"
        /\ calls[1].ok => session = NoSession
        /\ ~calls[1].ok => session = req.session

\* A logout acknowledged while the session still exists.
C20_Witness ==
    /\ Handled("handleLogout")
    /\ ~calls[1].ok
    /\ session.exists
    /\ resp.status = StatusOK
    /\ resp.data

----------------------------------------------------------------------------
(* Properties of concurrent attempts *)

\* What the handler of request c can do when it runs alone, start to end,
\* on the store as it was before any attempt.
Alone(c) ==
    IF c.handler = "handleLoginPage" THEN handleLoginPage(c, InitUsers)
    ELSE handleOIDCFinish(c, InitUsers)

\* The calls of a handler: which, and whether they succeeded.
Outline(cs) == [i \in 1..Len(cs) |-> [fn |-> cs[i].fn, ok |-> cs[i].ok]]

\* The users the store's rows say the attempt of s authenticates: the rows
\* with its username and password, or with the e-mail its provider claimed.
Authenticates(s) ==
    IF s.c.handler = "handleLoginPage"
    THEN {i \in DOMAIN users :
            /\ users[i].username = TrimSpace(s.c.form.username)
            /\ users[i].password = TrimSpace(s.c.form.password)}
    ELSE {i \in DOMAIN users : users[i].email = ToLower(s.claims.Email)}

\* C19: in every interleaving of two attempts, an attempt that has ended
\* ended as its handler can end when run alone with the same answers of
\* its collaborators (same error, same calls with the same success, same
\* response, cookie and session), and a session it created is bound to the
\* user that this very attempt authenticated.
C19_AttemptsIndependent ==
    \A p \in DOMAIN procs :
        LET s == procs[p]
        IN s.pc = "done" =>
             /\ \E r \in Alone(s.c) :
                   /\ r.loginErr = s.err
                   /\ Outline(r.calls) = Outline(s.calls)
                   /\ r.resp = s.resp
                   /\ r.cookie = s.cookie
                   /\ r.session = s.session
             /\ s.session # s.c.session =>
                   /\ s.session.exists
                   /\ s.session.user = s.user.id
                   /\ s.claims.Email # <<>> \/ s.c.handler = "handleLoginPage"
                         => s.session.user \in Authenticates(s)

\* Both clients logged in, over different paths, each as its own user.
C19_Witness ==
    /\ procs # NoProcs
    /\ \A p \in Clients : procs[p].pc = "done" /\ procs[p].session.exists
    /\ procs[1].c.handler # procs[2].c.handler
    /\ procs[1].session.user # procs[2].session.user
    /\ users[1].avatar # <<>>

====
